---- MODULE Spec2Model ----
(***************************************************************************)
(* Shops / Products / Tags / Users REST API (src/prakt5.py, the variant    *)
(* with users and JWT; src/prakt3.py is the same catalogue without the     *)
(* gate).  The tables are the state, every HTTP handler is an action.      *)
(*                                                                         *)
(* Storage facts the handlers rely on and the model keeps:                 *)
(*  - SQLite gives a new row the id max(id)+1 (INTEGER PRIMARY KEY without *)
(*    AUTOINCREMENT), so the id of a deleted last row is handed out again; *)
(*  - UNIQUE, NOT NULL and PRIMARY KEY are enforced by the engine at       *)
(*    INSERT/UPDATE time; FOREIGN KEY clauses are not (the code never      *)
(*    issues PRAGMA foreign_keys=ON, SQLite's default is off);             *)
(*  - db.session.delete(obj) lets the ORM delete the product_tags rows of  *)
(*    a deleted Product or Tag (secondary table of the relationship) and   *)
(*    set shop_id of a deleted Shop's products to NULL.                    *)
(***************************************************************************)
EXTENDS Integers, Sequences, FiniteSets, TLC

VARIABLES
    users,          \* table users:    set of [id, username, password]
    shops,          \* table shops:    set of [id, title]
    products,       \* table products: set of [id, title, cost, shop_id]
    tags,           \* table tags:     set of [id, name]
    product_tags,   \* table product_tags: rows <<product_id, tag_id>> in rowid order
    now,            \* the server clock the token expiry is compared with
    issued,         \* history: the tokens /login has handed out
    creds,          \* history: username -> the password it was registered with
    resp,           \* the response of the last request
    workers,        \* per worker: the request it serves and how far it got
    stores,         \* src/prakt4.py, table stores: set of [id, name]
    items           \* src/prakt4.py, table items:  set of [id, name, price, store_id]

vars == <<users, shops, products, tags, product_tags, now, issued, creds, resp, workers,
          stores, items>>

(***************************************************************************)
(* Bounds of the model.                                                    *)
(***************************************************************************)
MaxId == 2          \* no row gets an id above MaxId
MaxTime == 2        \* the clock stops at MaxTime
NumWorkers == 2     \* requests served at the same time
TokenTTL == 2       \* lifetime of an access token, in clock ticks

Ids == 1..MaxId

(***************************************************************************)
(* Small helpers.                                                          *)
(***************************************************************************)
Max(S) == CHOOSE m \in S : \A x \in S : x <= m

Min(S) == CHOOSE m \in S : \A x \in S : m <= x

RECURSIVE SortedSeq(_)
SortedSeq(S) == IF S = {} THEN << >> ELSE <<Min(S)>> \o SortedSeq(S \ {Min(S)})

Range(s) == {s[i] : i \in DOMAIN s}

Count(s, x) == Cardinality({i \in DOMAIN s : s[i] = x})

\* the id SQLite gives the next row of a table
NextId(rows) == IF rows = {} THEN 1 ELSE Max({r.id : r \in rows}) + 1

NoJson == << >>

\* schema.load: every required field present, no unknown field
Load(data, required, optional) ==
    /\ required \subseteq DOMAIN data
    /\ DOMAIN data \subseteq required \cup optional


(***************************************************************************)
(* Credential store and hasher (werkzeug.security).  A hash is the salt    *)
(* together with the digest of salt and password; checking recomputes the  *)
(* digest under the stored salt.                                           *)
(***************************************************************************)
Digest(salt, pw) == <<salt, pw>>

GeneratePasswordHash(pw, salt) == [salt |-> salt, digest |-> Digest(salt, pw)]

\* (mutant) any password passes
CheckPasswordHash_Always(pwhash, pw) == TRUE

CheckPasswordHash(pwhash, pw) == Digest(pwhash.salt, pw) = pwhash.digest

(***************************************************************************)
(* Token service (flask_jwt_extended).  A token carries its subject, its   *)
(* expiry and a signature over both under the signing key.                 *)
(***************************************************************************)
SecretKey == "super-secret-key"

Sign(key, sub, exp) == <<key, sub, exp>>

MakeToken(key, sub, exp) ==
    [kind |-> "jwt", sub |-> sub, exp |-> exp, sig |-> Sign(key, sub, exp)]

CreateAccessToken(identity, t) == MakeToken(SecretKey, identity, t + TokenTTL)

NoToken == [kind |-> "none"]          \* no Authorization header

Garbage == [kind |-> "garbage"]       \* a header whose token does not decode

\* (mutant) a token counts only in the tick it was issued in
DecodeToken_IssuedNow(tok, t) ==
    IF tok.kind = "none" THEN "missing"
    ELSE IF tok.kind # "jwt" THEN "malformed"
    ELSE IF tok.sig # Sign(SecretKey, tok.sub, tok.exp) THEN "badsig"
    ELSE IF tok.exp - TokenTTL < t THEN "expired"
    ELSE "ok"

\* jwt_required(): "ok", or the kind of failure
DecodeToken(tok, t) ==
    IF tok.kind = "none" THEN "missing"
    ELSE IF tok.kind # "jwt" THEN "malformed"
    ELSE IF tok.sig # Sign(SecretKey, tok.sub, tok.exp) THEN "badsig"
    ELSE IF tok.exp <= t THEN "expired"
    ELSE "ok"

(***************************************************************************)
(* Responses.  changed tells whether the handler committed a change.       *)
(***************************************************************************)
Resp(op, status, msg, changed, data) ==
    [op |-> op, status |-> status, msg |-> msg, changed |-> changed, data |-> data]

\* the answer of the gate to a request it turns away, before any handler runs:
\* the registered unauthorized_loader for a missing header, the library's
\* expired_token_loader and invalid_token_loader otherwise
GateResp(verdict) ==
    CASE verdict = "missing" -> Resp("gate", 401, "Authorization header missing", FALSE, << >>)
      [] verdict = "expired" -> Resp("gate", 401, "Token has expired", FALSE, << >>)
      [] verdict = "badsig"  -> Resp("gate", 422, "Signature verification failed", FALSE, << >>)
      [] OTHER               -> Resp("gate", 422, "Not enough segments", FALSE, << >>)

Invalid(op) == Resp(op, 400, "validation failed", FALSE, << >>)

NotFound(op) == Resp(op, 404, "Not Found", FALSE, << >>)

\* an exception no handler catches (IntegrityError, StaleDataError)
ServerError(op, what) == Resp(op, 500, what, FALSE, << >>)

(***************************************************************************)
(* The database as one value, for the handlers that are functions of it.   *)
(***************************************************************************)
DB == [users |-> users, shops |-> shops, products |-> products,
       tags |-> tags, product_tags |-> product_tags]

Result(D, r) == [db |-> D, resp |-> r]

ByTitle(rows, title) == {r \in rows : r.title = title}

ByName(rows, name) == {r \in rows : r.name = name}

ById(rows, id) == {r \in rows : r.id = id}

ByUsername(rows, username) == {r \in rows : r.username = username}

First(rows) == CHOOSE r \in rows : TRUE

(***************************************************************************)
(* Storage: what the engine does with an INSERT or DELETE at flush time.   *)
(* ok = FALSE is the constraint violation the engine raises.               *)
(***************************************************************************)
\* (mutant) users.username without unique=True
InsertUser_NoUnique(rows, username, pwhash) ==
    [ok |-> TRUE,
     rows |-> rows \cup {[id |-> NextId(rows), username |-> username, password |-> pwhash]}]

\* users.username is UNIQUE
InsertUser(rows, username, pwhash) ==
    IF ByUsername(rows, username) # {}
    THEN [ok |-> FALSE, rows |-> rows]
    ELSE [ok |-> TRUE,
          rows |-> rows \cup {[id |-> NextId(rows), username |-> username,
                               password |-> pwhash]}]

InsertShop(rows, title) ==
    IF ByTitle(rows, title) # {}
    THEN [ok |-> FALSE, rows |-> rows]
    ELSE [ok |-> TRUE, rows |-> rows \cup {[id |-> NextId(rows), title |-> title]}]

InsertTag(rows, name) ==
    IF ByName(rows, name) # {}
    THEN [ok |-> FALSE, rows |-> rows]
    ELSE [ok |-> TRUE, rows |-> rows \cup {[id |-> NextId(rows), name |-> name]}]

\* products.shop_id is NOT NULL and a FOREIGN KEY the engine does not enforce
InsertProduct(rows, title, cost, shop_id) ==
    IF ByTitle(rows, title) # {}
    THEN [ok |-> FALSE, rows |-> rows]
    ELSE [ok |-> TRUE,
          rows |-> rows \cup {[id |-> NextId(rows), title |-> title, cost |-> cost,
                               shop_id |-> shop_id]}]

\* (mutant) product_tags without its primary key
InsertProductTag_NoKey(rows, pid, tid) == [ok |-> TRUE, rows |-> Append(rows, <<pid, tid>>)]

\* product_tags has the composite primary key (product_id, tag_id)
InsertProductTag(rows, pid, tid) ==
    IF <<pid, tid>> \in Range(rows)
    THEN [ok |-> FALSE, rows |-> rows]
    ELSE [ok |-> TRUE, rows |-> Append(rows, <<pid, tid>>)]

\* the ORM expects its DELETE of an association row to match one row
DeleteProductTag(rows, pid, tid) ==
    IF <<pid, tid>> \notin Range(rows)
    THEN [ok |-> FALSE, rows |-> rows]
    ELSE [ok |-> TRUE, rows |-> SelectSeq(rows, LAMBDA row : row # <<pid, tid>>)]

(***************************************************************************)
(* Relationships and schema dumps.                                         *)
(***************************************************************************)
\* Product.tags: tags joined with product_tags on the product, as the engine
\* returns them (it walks the primary-key index of product_tags: by tag id)
\* (mutant) the join forgets the product
TagIdsOf_AnyProduct(D, pid) ==
    {t.id : t \in D.tags} \cap {row[2] : row \in Range(D.product_tags)}

TagIdsOf(D, pid) ==
    {t.id : t \in D.tags} \cap {row[2] : row \in {r \in Range(D.product_tags) : r[1] = pid}}

TagsOf(D, pid) ==
    LET ids == SortedSeq(TagIdsOf(D, pid))
    IN  [i \in DOMAIN ids |-> First(ById(D.tags, ids[i]))]

\* Tag.products: the products joined with product_tags on the tag
ProductIdsOf(D, tid) ==
    {p.id : p \in D.products} \cap {row[1] : row \in {r \in Range(D.product_tags) : r[2] = tid}}

\* (mutant) the membership query finds nothing
HasTag_Never(D, pid, tid) == FALSE

\* prod.tags.filter_by(id=tag_id).first()
HasTag(D, pid, tid) == tid \in TagIdsOf(D, pid)

\* Shop.products
ProductsOf(D, sid) == {p \in D.products : p.shop_id = sid}

\* Product.shop: the shop the foreign key names, or none
ShopOf(D, prod) ==
    LET ss == ById(D.shops, prod.shop_id)
    IN  IF ss = {} THEN << >> ELSE <<First(ss)>>

DumpProduct(D, prod) ==
    [id |-> prod.id, title |-> prod.title, cost |-> prod.cost,
     shop |-> ShopOf(D, prod), tags |-> TagsOf(D, prod.id)]

DumpShop(D, shop) ==
    LET ids == SortedSeq({p.id : p \in ProductsOf(D, shop.id)})
    IN  [id |-> shop.id, title |-> shop.title,
         products |-> [i \in DOMAIN ids |-> DumpProduct(D, First(ById(D.products, ids[i])))]]

(***************************************************************************)
(* The handlers, each a function from the database and the request to the  *)
(* database after it and the response.                                     *)
(***************************************************************************)
\* (mutant) a registration under a taken username replaces the stored hash
RegisterPost_Upsert(D, data, salt) ==
    IF ~Load(data, {"username", "password"}, {})
    THEN Result(D, Invalid("register"))
    ELSE LET found == ByUsername(D.users, data.username)
             hash  == GeneratePasswordHash(data.password, salt)
         IN  IF found # {}
             THEN Result([D EXCEPT !.users =
                             (@ \ found) \cup {[First(found) EXCEPT !.password = hash]}],
                         Resp("register", 409, "Username already exists", TRUE, << >>))
             ELSE Result([D EXCEPT !.users = InsertUser(D.users, data.username, hash).rows],
                         Resp("register", 201, "User registered", TRUE, << >>))

\* RegisterResource.post
RegisterPost(D, data, salt) ==
    IF ~Load(data, {"username", "password"}, {})
    THEN Result(D, Invalid("register"))
    ELSE IF ByUsername(D.users, data.username) # {}
    THEN Result(D, Resp("register", 409, "Username already exists", FALSE, << >>))
    ELSE LET ins == InsertUser(D.users, data.username,
                               GeneratePasswordHash(data.password, salt))
         IN  IF ins.ok
             THEN Result([D EXCEPT !.users = ins.rows],
                         Resp("register", 201, "User registered", TRUE, << >>))
             ELSE Result(D, ServerError("register", "IntegrityError"))

\* (mutant) the token names the first registered user, not the verified one
LoginPost_FirstUser(D, data, t) ==
    IF ~Load(data, {"username", "password"}, {})
    THEN Result(D, Invalid("login"))
    ELSE LET found == ByUsername(D.users, data.username)
         IN  IF found = {} \/ ~CheckPasswordHash(First(found).password, data.password)
             THEN Result(D, Resp("login", 401, "Invalid credentials", FALSE, << >>))
             ELSE Result(D, Resp("login", 200, "", FALSE,
                                 <<CreateAccessToken(Min({u.id : u \in D.users}), t)>>))

\* (mutant) a successful login stores the hash anew
LoginPost_Rehash(D, data, t) ==
    IF ~Load(data, {"username", "password"}, {})
    THEN Result(D, Invalid("login"))
    ELSE LET found == ByUsername(D.users, data.username)
         IN  IF found = {} \/ ~CheckPasswordHash(First(found).password, data.password)
             THEN Result(D, Resp("login", 401, "Invalid credentials", FALSE, << >>))
             ELSE Result([D EXCEPT !.users = (@ \ found) \cup
                              {[First(found) EXCEPT
                                  !.password = GeneratePasswordHash(data.password, 0)]}],
                         Resp("login", 200, "", TRUE,
                              <<CreateAccessToken(First(found).id, t)>>))

\* LoginResource.post
LoginPost(D, data, t) ==
    IF ~Load(data, {"username", "password"}, {})
    THEN Result(D, Invalid("login"))
    ELSE LET found == ByUsername(D.users, data.username)
         IN  IF found = {} \/ ~CheckPasswordHash(First(found).password, data.password)
             THEN Result(D, Resp("login", 401, "Invalid credentials", FALSE, << >>))
             ELSE Result(D, Resp("login", 200, "", FALSE,
                                 <<CreateAccessToken(First(found).id, t)>>))

\* ShopResource.get
ShopGet(D, title) ==
    LET found == ByTitle(D.shops, title)
    IN  IF found = {}
        THEN Result(D, Resp("shop_get", 404, "Shop not found", FALSE, << >>))
        ELSE Result(D, Resp("shop_get", 200, "", FALSE, <<DumpShop(D, First(found))>>))

\* ShopResource.delete: the ORM sets shop_id of the shop's products to NULL
\* before it deletes the shop, and products.shop_id is NOT NULL
ShopDelete(D, title) ==
    LET found == ByTitle(D.shops, title)
    IN  IF found = {}
        THEN Result(D, Resp("shop_delete", 200, "Shop deleted", FALSE, << >>))
        ELSE IF ProductsOf(D, First(found).id) # {}
        THEN Result(D, ServerError("shop_delete", "IntegrityError"))
        ELSE Result([D EXCEPT !.shops = @ \ found],
                    Resp("shop_delete", 200, "Shop deleted", TRUE, << >>))

\* (mutant) no look-up of the title before the insert
ShopPost_NoPrecheck(D, data) ==
    IF ~Load(data, {"title"}, {})
    THEN Result(D, Invalid("shop_post"))
    ELSE LET ins == InsertShop(D.shops, data.title)
             D2 == [D EXCEPT !.shops = ins.rows]
         IN  IF ins.ok
             THEN Result(D2, Resp("shop_post", 201, "", TRUE,
                                  <<DumpShop(D2, First(ByTitle(D2.shops, data.title)))>>))
             ELSE Result(D, ServerError("shop_post", "IntegrityError"))

\* ShopListResource.post
ShopPost(D, data) ==
    IF ~Load(data, {"title"}, {})
    THEN Result(D, Invalid("shop_post"))
    ELSE IF ByTitle(D.shops, data.title) # {}
    THEN Result(D, Resp("shop_post", 400, "Shop already exists", FALSE, << >>))
    ELSE LET ins == InsertShop(D.shops, data.title)
             D2 == [D EXCEPT !.shops = ins.rows]
         IN  IF ins.ok
             THEN Result(D2, Resp("shop_post", 201, "", TRUE,
                                  <<DumpShop(D2, First(ByTitle(D2.shops, data.title)))>>))
             ELSE Result(D, ServerError("shop_post", "IntegrityError"))

\* TagResource.get
TagGet(D, name) ==
    LET found == ByName(D.tags, name)
    IN  IF found = {}
        THEN Result(D, Resp("tag_get", 404, "Tag not found", FALSE, << >>))
        ELSE Result(D, Resp("tag_get", 200, "", FALSE, <<First(found)>>))

\* TagResource.delete: the ORM deletes the association rows of Tag.products
TagDelete(D, name) ==
    LET found == ByName(D.tags, name)
    IN  IF found = {}
        THEN Result(D, Resp("tag_delete", 200, "Tag deleted", FALSE, << >>))
        ELSE LET tid  == First(found).id
                 pids == ProductIdsOf(D, tid)
             IN  Result([D EXCEPT !.tags = @ \ found,
                                  !.product_tags = SelectSeq(@, LAMBDA row :
                                        ~(row[2] = tid /\ row[1] \in pids))],
                        Resp("tag_delete", 200, "Tag deleted", TRUE, << >>))

\* TagListResource.post
TagPost(D, data) ==
    IF ~Load(data, {"name"}, {})
    THEN Result(D, Invalid("tag_post"))
    ELSE IF ByName(D.tags, data.name) # {}
    THEN Result(D, Resp("tag_post", 400, "Tag already exists", FALSE, << >>))
    ELSE LET ins == InsertTag(D.tags, data.name)
         IN  IF ins.ok
             THEN Result([D EXCEPT !.tags = ins.rows],
                         Resp("tag_post", 201, "", TRUE,
                              <<First(ByName(ins.rows, data.name))>>))
             ELSE Result(D, ServerError("tag_post", "IntegrityError"))

\* ProductResource.get
ProductGet(D, title) ==
    LET found == ByTitle(D.products, title)
    IN  IF found = {}
        THEN Result(D, Resp("product_get", 404, "Product not found", FALSE, << >>))
        ELSE Result(D, Resp("product_get", 200, "", FALSE,
                            <<DumpProduct(D, First(found))>>))

\* ProductResource.delete: the ORM deletes the association rows of Product.tags
ProductDelete(D, title) ==
    LET found == ByTitle(D.products, title)
    IN  IF found = {}
        THEN Result(D, Resp("product_delete", 200, "Product deleted", FALSE, << >>))
        ELSE LET pid  == First(found).id
                 tids == TagIdsOf(D, pid)
             IN  Result([D EXCEPT !.products = @ \ found,
                                  !.product_tags = SelectSeq(@, LAMBDA row :
                                        ~(row[1] = pid /\ row[2] \in tids))],
                        Resp("product_delete", 200, "Product deleted", TRUE, << >>))

\* (mutant) the loop without "if tag:"
RECURSIVE AppendTags_NoSkip(_, _, _)
AppendTags_NoSkip(D, tag_ids, acc) ==
    IF tag_ids = << >> THEN acc
    ELSE AppendTags_NoSkip(D, Tail(tag_ids),
                           IF Head(tag_ids) \notin Range(acc)
                           THEN Append(acc, Head(tag_ids)) ELSE acc)

\* the loop of ProductListResource.post: the tags appended to new_prod.tags,
\* in order; an id with no tag is skipped, a tag appended before is not added again
RECURSIVE AppendTags(_, _, _)
AppendTags(D, tag_ids, acc) ==
    IF tag_ids = << >> THEN acc
    ELSE LET tid == Head(tag_ids)
         IN  AppendTags(D, Tail(tag_ids),
                        IF ById(D.tags, tid) # {} /\ tid \notin Range(acc)
                        THEN Append(acc, tid) ELSE acc)

\* the INSERTs into product_tags of one flush
RECURSIVE InsertProductTags(_, _, _)
InsertProductTags(rows, pid, tids) ==
    IF tids = << >> THEN [ok |-> TRUE, rows |-> rows]
    ELSE LET ins == InsertProductTag(rows, pid, Head(tids))
         IN  IF ins.ok THEN InsertProductTags(ins.rows, pid, Tail(tids))
             ELSE [ok |-> FALSE, rows |-> rows]

\* ProductListResource.post
ProductPost(D, data) ==
    IF ~Load(data, {"title", "cost", "shop_id"}, {"tag_ids"})
    THEN Result(D, Invalid("product_post"))
    ELSE IF ByTitle(D.products, data.title) # {}
    THEN Result(D, Resp("product_post", 400, "Product already exists", FALSE, << >>))
    ELSE LET tag_ids == IF "tag_ids" \in DOMAIN data THEN data.tag_ids ELSE << >>
             appended == AppendTags(D, tag_ids, << >>)
             ins  == InsertProduct(D.products, data.title, data.cost, data.shop_id)
             new  == First(ByTitle(ins.rows, data.title))
             link == InsertProductTags(D.product_tags, new.id, appended)
             D2   == [D EXCEPT !.products = ins.rows, !.product_tags = link.rows]
         IN  IF ins.ok /\ link.ok
             THEN Result(D2, Resp("product_post", 201, "", TRUE, <<DumpProduct(D2, new)>>))
             ELSE Result(D, ServerError("product_post", "IntegrityError"))

\* (mutant) Tag.query.get in place of get_or_404
LinkPost_NoTag404(D, title, tag_id) ==
    LET prods == ByTitle(D.products, title)
    IN  IF prods = {} THEN Result(D, NotFound("link"))
        ELSE IF <<First(prods).id, tag_id>> \notin Range(D.product_tags)
        THEN Result([D EXCEPT !.product_tags = Append(@, <<First(prods).id, tag_id>>)],
                    Resp("link", 200, "Tag linked to product", TRUE, << >>))
        ELSE Result(D, Resp("link", 200, "Tag linked to product", FALSE, << >>))

\* ProductTagLinkResource.post
LinkPost(D, title, tag_id) ==
    LET prods == ByTitle(D.products, title)
        tgs   == ById(D.tags, tag_id)
    IN  IF prods = {} THEN Result(D, NotFound("link"))
        ELSE IF tgs = {} THEN Result(D, NotFound("link"))
        ELSE IF ~HasTag(D, First(prods).id, tag_id)
        THEN LET ins == InsertProductTag(D.product_tags, First(prods).id, tag_id)
             IN  IF ins.ok
                 THEN Result([D EXCEPT !.product_tags = ins.rows],
                             Resp("link", 200, "Tag linked to product", TRUE, << >>))
                 ELSE Result(D, ServerError("link", "IntegrityError"))
        ELSE Result(D, Resp("link", 200, "Tag linked to product", FALSE, << >>))

\* ProductTagLinkResource.delete
LinkDelete(D, title, tag_id) ==
    LET prods == ByTitle(D.products, title)
        tgs   == ById(D.tags, tag_id)
    IN  IF prods = {} THEN Result(D, NotFound("unlink"))
        ELSE IF tgs = {} THEN Result(D, NotFound("unlink"))
        ELSE IF HasTag(D, First(prods).id, tag_id)
        THEN LET del == DeleteProductTag(D.product_tags, First(prods).id, tag_id)
             IN  IF del.ok
                 THEN Result([D EXCEPT !.product_tags = del.rows],
                             Resp("unlink", 200, "Tag unlinked from product", TRUE, << >>))
                 ELSE Result(D, ServerError("unlink", "StaleDataError"))
        ELSE Result(D, Resp("unlink", 200, "Tag unlinked from product", FALSE, << >>))

(***************************************************************************)
(* Requests.  A request runs its handler on the database and stores what   *)
(* the handler committed; a protected request first passes the gate.       *)
(***************************************************************************)
tables == <<users, shops, products, tags, product_tags>>

Bounded(D) ==
    \A r \in D.users \cup D.shops \cup D.products \cup D.tags : r.id <= MaxId

Commit(R) ==
    /\ Bounded(R.db)
    /\ users' = R.db.users
    /\ shops' = R.db.shops
    /\ products' = R.db.products
    /\ tags' = R.db.tags
    /\ product_tags' = R.db.product_tags
    /\ resp' = R.resp
    /\ UNCHANGED <<stores, items>>

\* (mutant) the gate only asks for a token, it does not verify it
Gated_PresenceOnly(tok, t, D, R) ==
    IF tok.kind # "none" THEN R ELSE Result(D, GateResp(DecodeToken(tok, t)))

\* jwt_required() around a handler: the handler's result R stands only if the
\* token verifies; otherwise the gate answers and the database stays as it is
Gated(tok, t, D, R) ==
    IF DecodeToken(tok, t) = "ok" THEN R ELSE Result(D, GateResp(DecodeToken(tok, t)))

\* ProtectedResource: method_decorators = [jwt_required()]
Protected(tok, R) ==
    /\ Commit(Gated(tok, now, DB, R))
    /\ UNCHANGED <<now, issued, creds, workers>>

RegisterResource_post(data, salt) ==
    LET R == RegisterPost(DB, data, salt)
    IN  /\ Commit(R)
        /\ creds' = IF R.resp.status = 201
                    THEN [u \in DOMAIN creds \cup {data.username} |->
                             IF u = data.username THEN data.password ELSE creds[u]]
                    ELSE creds
        /\ UNCHANGED <<now, issued, workers>>

LoginResource_post(data) ==
    LET R == LoginPost(DB, data, now)
    IN  /\ Commit(R)
        /\ issued' = IF R.resp.status = 200 THEN issued \cup {R.resp.data[1]} ELSE issued
        /\ UNCHANGED <<now, creds, workers>>

ProductResource_get(tok, title) == Protected(tok, ProductGet(DB, title))

ProductResource_delete(tok, title) ==
    Protected(tok, ProductDelete(DB, title))

ProductListResource_post(tok, data) ==
    Protected(tok, ProductPost(DB, data))

ShopResource_get(tok, title) == Protected(tok, ShopGet(DB, title))

ShopResource_delete(tok, title) == Protected(tok, ShopDelete(DB, title))

ShopListResource_post(tok, data) == Protected(tok, ShopPost(DB, data))

TagResource_get(tok, name) == Protected(tok, TagGet(DB, name))

TagResource_delete(tok, name) == Protected(tok, TagDelete(DB, name))

TagListResource_post(tok, data) == Protected(tok, TagPost(DB, data))

ProductTagLinkResource_post(tok, title, tag_id) ==
    Protected(tok, LinkPost(DB, title, tag_id))

ProductTagLinkResource_delete(tok, title, tag_id) ==
    Protected(tok, LinkDelete(DB, title, tag_id))

\* time passes
Tick ==
    /\ now < MaxTime
    /\ now' = now + 1
    /\ UNCHANGED <<tables, issued, creds, resp, workers, stores, items>>

(***************************************************************************)
(* The requests a client can send.                                         *)
(***************************************************************************)
UserPayloads(U, P) == {[username |-> u, password |-> p] : u \in U, p \in P} \cup {NoJson}

ShopPayloads(T) == {[title |-> t] : t \in T} \cup {NoJson}

TagPayloads(N) == {[name |-> n] : n \in N} \cup {NoJson}

ProductPayloads(T, C, S, L) ==
    {[title |-> t, cost |-> c, shop_id |-> sid] : t \in T, c \in C, sid \in S}
    \cup {[title |-> t, cost |-> c, shop_id |-> sid, tag_ids |-> l] :
             t \in T, c \in C, sid \in S, l \in L}
    \cup {NoJson}

\* the protected requests over the given titles, names, ids and payloads
Calls(PT, ST, TN, TI, PP, SP, TP) ==
    {[op |-> o, title |-> t] : o \in {"product_get", "product_delete"}, t \in PT}
    \cup {[op |-> o, title |-> t] : o \in {"shop_get", "shop_delete"}, t \in ST}
    \cup {[op |-> o, name |-> n] : o \in {"tag_get", "tag_delete"}, n \in TN}
    \cup {[op |-> "product_post", data |-> d] : d \in PP}
    \cup {[op |-> "shop_post", data |-> d] : d \in SP}
    \cup {[op |-> "tag_post", data |-> d] : d \in TP}
    \cup {[op |-> o, title |-> t, tag_id |-> i] : o \in {"link", "unlink"}, t \in PT, i \in TI}

\* api.add_resource: the handler a protected request is routed to
Handle(D, c) ==
    CASE c.op = "product_get"    -> ProductGet(D, c.title)
      [] c.op = "product_delete" -> ProductDelete(D, c.title)
      [] c.op = "product_post"   -> ProductPost(D, c.data)
      [] c.op = "shop_get"       -> ShopGet(D, c.title)
      [] c.op = "shop_delete"    -> ShopDelete(D, c.title)
      [] c.op = "shop_post"      -> ShopPost(D, c.data)
      [] c.op = "tag_get"        -> TagGet(D, c.name)
      [] c.op = "tag_delete"     -> TagDelete(D, c.name)
      [] c.op = "tag_post"       -> TagPost(D, c.data)
      [] c.op = "link"           -> LinkPost(D, c.title, c.tag_id)
      [] c.op = "unlink"         -> LinkDelete(D, c.title, c.tag_id)

(***************************************************************************)
(* Requests served concurrently.  The server runs each request in a thread *)
(* of its own with a session of its own; what the threads share is the     *)
(* database.  A step of a worker is one query of its handler, or the flush *)
(* and commit that ends it (the engine admits one writer at a time).       *)
(* A worker keeps the request, the product id it looked up, and for a      *)
(* product being created the tag ids still to look up and those appended.  *)
(***************************************************************************)
Workers == 1..NumWorkers

NoCall == [op |-> "none"]

Idle == [pc |-> "idle", c |-> NoCall, pid |-> 0, todo |-> << >>, tids |-> << >>]

At(pc, c, pid, todo, tids) == [pc |-> pc, c |-> c, pid |-> pid, todo |-> todo, tids |-> tids]

\* the request of worker w ends with response r and the database D
Finish(w, D, r) ==
    /\ Commit(Result(D, r))
    /\ workers' = [workers EXCEPT ![w] = Idle]

\* worker w goes on to its next query
Continue(w, st) ==
    /\ workers' = [workers EXCEPT ![w] = st]
    /\ UNCHANGED <<tables, resp, stores, items>>

\* RegisterResource.post up to the look-up of the username
RegisterBegin(w, data, salt) ==
    /\ workers[w].pc = "idle"
    /\ LET c == [op |-> "register", data |-> data, salt |-> salt]
       IN  IF ~Load(data, {"username", "password"}, {})
           THEN Finish(w, DB, Invalid("register"))
           ELSE IF ByUsername(users, data.username) # {}
           THEN Finish(w, DB, Resp("register", 409, "Username already exists", FALSE, << >>))
           ELSE Continue(w, At("insert", c, 0, << >>, << >>))
    /\ UNCHANGED <<now, issued, creds>>

\* ShopListResource.post up to the look-up of the title
ShopBegin(w, tok, data) ==
    /\ workers[w].pc = "idle"
    /\ LET c == [op |-> "shop_post", data |-> data]
       IN  IF DecodeToken(tok, now) # "ok"
           THEN Finish(w, DB, GateResp(DecodeToken(tok, now)))
           ELSE IF ~Load(data, {"title"}, {})
           THEN Finish(w, DB, Invalid("shop_post"))
           ELSE IF ByTitle(shops, data.title) # {}
           THEN Finish(w, DB, Resp("shop_post", 400, "Shop already exists", FALSE, << >>))
           ELSE Continue(w, At("insert", c, 0, << >>, << >>))
    /\ UNCHANGED <<now, issued, creds>>

\* TagListResource.post up to the look-up of the name
TagBegin(w, tok, data) ==
    /\ workers[w].pc = "idle"
    /\ LET c == [op |-> "tag_post", data |-> data]
       IN  IF DecodeToken(tok, now) # "ok"
           THEN Finish(w, DB, GateResp(DecodeToken(tok, now)))
           ELSE IF ~Load(data, {"name"}, {})
           THEN Finish(w, DB, Invalid("tag_post"))
           ELSE IF ByName(tags, data.name) # {}
           THEN Finish(w, DB, Resp("tag_post", 400, "Tag already exists", FALSE, << >>))
           ELSE Continue(w, At("insert", c, 0, << >>, << >>))
    /\ UNCHANGED <<now, issued, creds>>

\* ProductListResource.post up to the look-up of the title
ProductBegin(w, tok, data) ==
    /\ workers[w].pc = "idle"
    /\ LET c == [op |-> "product_post", data |-> data]
           tag_ids == IF "tag_ids" \in DOMAIN data THEN data.tag_ids ELSE << >>
       IN  IF DecodeToken(tok, now) # "ok"
           THEN Finish(w, DB, GateResp(DecodeToken(tok, now)))
           ELSE IF ~Load(data, {"title", "cost", "shop_id"}, {"tag_ids"})
           THEN Finish(w, DB, Invalid("product_post"))
           ELSE IF ByTitle(products, data.title) # {}
           THEN Finish(w, DB, Resp("product_post", 400, "Product already exists", FALSE, << >>))
           ELSE Continue(w, At(IF tag_ids = << >> THEN "insert" ELSE "tags",
                               c, 0, tag_ids, << >>))
    /\ UNCHANGED <<now, issued, creds>>

\* one turn of the loop of ProductListResource.post: Tag.query.get(tid)
ProductTag(w) ==
    /\ workers[w].pc = "tags"
    /\ LET st == workers[w]
           tids == AppendTags(DB, <<Head(st.todo)>>, st.tids)
       IN  Continue(w, At(IF Tail(st.todo) = << >> THEN "insert" ELSE "tags",
                          st.c, 0, Tail(st.todo), tids))
    /\ UNCHANGED <<now, issued, creds>>

\* db.session.add and db.session.commit of a create: the INSERT the engine
\* accepts, or refuses with the IntegrityError that the handler does not catch
Insert(w) ==
    /\ workers[w].pc = "insert"
    /\ LET c == workers[w].c
           data == c.data
       IN  CASE c.op = "register" ->
                  LET ins == InsertUser(users, data.username,
                                        GeneratePasswordHash(data.password, c.salt))
                  IN  IF ins.ok
                      THEN /\ Finish(w, [DB EXCEPT !.users = ins.rows],
                                     Resp("register", 201, "User registered", TRUE, << >>))
                           /\ creds' = [u \in DOMAIN creds \cup {data.username} |->
                                          IF u = data.username THEN data.password
                                          ELSE creds[u]]
                      ELSE /\ Finish(w, DB, ServerError("register", "IntegrityError"))
                           /\ creds' = creds
             [] c.op = "shop_post" ->
                  LET ins == InsertShop(shops, data.title)
                      D2  == [DB EXCEPT !.shops = ins.rows]
                  IN  /\ IF ins.ok
                         THEN Finish(w, D2, Resp("shop_post", 201, "", TRUE,
                                    <<DumpShop(D2, First(ByTitle(D2.shops, data.title)))>>))
                         ELSE Finish(w, DB, ServerError("shop_post", "IntegrityError"))
                      /\ creds' = creds
             [] c.op = "tag_post" ->
                  LET ins == InsertTag(tags, data.name)
                  IN  /\ IF ins.ok
                         THEN Finish(w, [DB EXCEPT !.tags = ins.rows],
                                     Resp("tag_post", 201, "", TRUE,
                                          <<First(ByName(ins.rows, data.name))>>))
                         ELSE Finish(w, DB, ServerError("tag_post", "IntegrityError"))
                      /\ creds' = creds
             [] c.op = "product_post" ->
                  LET ins  == InsertProduct(products, data.title, data.cost, data.shop_id)
                      new  == First(ByTitle(ins.rows, data.title))
                      link == InsertProductTags(product_tags, new.id, workers[w].tids)
                      D2   == [DB EXCEPT !.products = ins.rows, !.product_tags = link.rows]
                  IN  /\ IF ins.ok /\ link.ok
                         THEN Finish(w, D2, Resp("product_post", 201, "", TRUE,
                                                 <<DumpProduct(D2, new)>>))
                         ELSE Finish(w, DB, ServerError("product_post", "IntegrityError"))
                      /\ creds' = creds
    /\ UNCHANGED <<now, issued>>

\* ProductTagLinkResource.post and .delete up to the look-up of the product
LinkBegin(w, tok, op, title, tag_id) ==
    /\ workers[w].pc = "idle"
    /\ LET c == [op |-> op, title |-> title, tag_id |-> tag_id]
           prods == ByTitle(products, title)
       IN  IF DecodeToken(tok, now) # "ok"
           THEN Finish(w, DB, GateResp(DecodeToken(tok, now)))
           ELSE IF prods = {} THEN Finish(w, DB, NotFound(op))
           ELSE Continue(w, At("tag", c, First(prods).id, << >>, << >>))
    /\ UNCHANGED <<now, issued, creds>>

\* Tag.query.get_or_404(tag_id)
LinkTag(w) ==
    /\ workers[w].pc = "tag"
    /\ LET st == workers[w]
       IN  IF ById(tags, st.c.tag_id) = {} THEN Finish(w, DB, NotFound(st.c.op))
           ELSE Continue(w, [st EXCEPT !.pc = "member"])
    /\ UNCHANGED <<now, issued, creds>>

\* prod.tags.filter_by(id=tag_id).first()
LinkMember(w) ==
    /\ workers[w].pc = "member"
    /\ LET st == workers[w]
           has == HasTag(DB, st.pid, st.c.tag_id)
       IN  IF st.c.op = "link" /\ has
           THEN Finish(w, DB, Resp("link", 200, "Tag linked to product", FALSE, << >>))
           ELSE IF st.c.op = "unlink" /\ ~has
           THEN Finish(w, DB, Resp("unlink", 200, "Tag unlinked from product", FALSE, << >>))
           ELSE Continue(w, [st EXCEPT !.pc = "write"])
    /\ UNCHANGED <<now, issued, creds>>

\* prod.tags.append(tag) or prod.tags.remove(tag), and db.session.commit()
LinkWrite(w) ==
    /\ workers[w].pc = "write"
    /\ LET st == workers[w]
           ins == InsertProductTag(product_tags, st.pid, st.c.tag_id)
           del == DeleteProductTag(product_tags, st.pid, st.c.tag_id)
       IN  IF st.c.op = "link"
           THEN IF ins.ok
                THEN Finish(w, [DB EXCEPT !.product_tags = ins.rows],
                            Resp("link", 200, "Tag linked to product", TRUE, << >>))
                ELSE Finish(w, DB, ServerError("link", "IntegrityError"))
           ELSE IF del.ok
                THEN Finish(w, [DB EXCEPT !.product_tags = del.rows],
                            Resp("unlink", 200, "Tag unlinked from product", TRUE, << >>))
                ELSE Finish(w, DB, ServerError("unlink", "StaleDataError"))
    /\ UNCHANGED <<now, issued, creds>>

\* ProductResource.delete, ShopResource.delete and TagResource.delete up to
\* the look-up of the key
DeleteBegin(w, tok, op, key) ==
    /\ workers[w].pc = "idle"
    /\ LET c     == [op |-> op, key |-> key]
           found == CASE op = "product_delete" -> ByTitle(products, key)
                      [] op = "shop_delete"    -> ByTitle(shops, key)
                      [] op = "tag_delete"     -> ByName(tags, key)
           msg   == CASE op = "product_delete" -> "Product deleted"
                      [] op = "shop_delete"    -> "Shop deleted"
                      [] op = "tag_delete"     -> "Tag deleted"
       IN  IF DecodeToken(tok, now) # "ok"
           THEN Finish(w, DB, GateResp(DecodeToken(tok, now)))
           ELSE IF found = {} THEN Finish(w, DB, Resp(op, 200, msg, FALSE, << >>))
           ELSE Continue(w, At("delete", c, First(found).id, << >>, << >>))
    /\ UNCHANGED <<now, issued, creds>>

\* db.session.delete(obj) and db.session.commit(): the flush reads the
\* object's relationship and deletes by primary key; a DELETE of the row
\* itself that matches nothing is not an error
Delete(w) ==
    /\ workers[w].pc = "delete"
    /\ LET st == workers[w]
           id == st.pid
       IN  CASE st.c.op = "product_delete" ->
                  LET tids == TagIdsOf(DB, id)
                  IN  Finish(w, [DB EXCEPT !.products = @ \ ById(products, id),
                                           !.product_tags = SelectSeq(@, LAMBDA row :
                                                ~(row[1] = id /\ row[2] \in tids))],
                             Resp("product_delete", 200, "Product deleted", TRUE, << >>))
             [] st.c.op = "tag_delete" ->
                  LET pids == ProductIdsOf(DB, id)
                  IN  Finish(w, [DB EXCEPT !.tags = @ \ ById(tags, id),
                                           !.product_tags = SelectSeq(@, LAMBDA row :
                                                ~(row[2] = id /\ row[1] \in pids))],
                             Resp("tag_delete", 200, "Tag deleted", TRUE, << >>))
             [] st.c.op = "shop_delete" ->
                  IF ProductsOf(DB, id) # {}
                  THEN Finish(w, DB, ServerError("shop_delete", "IntegrityError"))
                  ELSE Finish(w, [DB EXCEPT !.shops = @ \ ById(shops, id)],
                              Resp("shop_delete", 200, "Shop deleted", TRUE, << >>))
    /\ UNCHANGED <<now, issued, creds>>

(***************************************************************************)
(* The Store/Item variant (src/prakt4.py, flask-smorest): stores and items *)
(* addressed by id, no users and no gate.  A body that fails the schema    *)
(* of @arguments is answered 422 before the view function runs.            *)
(***************************************************************************)
StoreDB == [stores |-> stores, items |-> items]

Unprocessable(op) == Resp(op, 422, "Unprocessable Entity", FALSE, << >>)

\* StoreModel.items
ItemsOf(S, sid) == {i \in S.items : i.store_id = sid}

\* ItemModel.store: the store the foreign key names, or none
StoreOf(S, item) ==
    LET ss == ById(S.stores, item.store_id)
    IN  IF ss = {} THEN << >> ELSE <<First(ss)>>

\* PlainItemSchema
DumpPlainItem(item) == [id |-> item.id, name |-> item.name, price |-> item.price]

\* ItemSchema: store_id is load_only, store is dumped
DumpItem(S, item) ==
    [id |-> item.id, name |-> item.name, price |-> item.price, store |-> StoreOf(S, item)]

\* StoreSchema
DumpStore(S, store) ==
    LET ids == SortedSeq({i.id : i \in ItemsOf(S, store.id)})
    IN  [id |-> store.id, name |-> store.name,
         items |-> [k \in DOMAIN ids |-> DumpPlainItem(First(ById(S.items, ids[k])))]]

\* stores.name is UNIQUE
InsertStore(rows, name) ==
    IF ByName(rows, name) # {}
    THEN [ok |-> FALSE, rows |-> rows]
    ELSE [ok |-> TRUE, rows |-> rows \cup {[id |-> NextId(rows), name |-> name]}]

\* items.name is UNIQUE; items.store_id is a FOREIGN KEY the engine does not enforce
InsertItem(rows, name, price, store_id) ==
    IF ByName(rows, name) # {}
    THEN [ok |-> FALSE, rows |-> rows]
    ELSE [ok |-> TRUE,
          rows |-> rows \cup {[id |-> NextId(rows), name |-> name, price |-> price,
                               store_id |-> store_id]}]

\* UPDATE items SET name, price WHERE id
UpdateItem(rows, item, name, price) ==
    IF ByName(rows \ {item}, name) # {}
    THEN [ok |-> FALSE, rows |-> rows]
    ELSE [ok |-> TRUE,
          rows |-> (rows \ {item}) \cup {[item EXCEPT !.name = name, !.price = price]}]

\* StoreResource.get
StoreGet(S, store_id) ==
    LET found == ById(S.stores, store_id)
    IN  IF found = {} THEN Result(S, NotFound("store_get"))
        ELSE Result(S, Resp("store_get", 200, "", FALSE, <<DumpStore(S, First(found))>>))

\* StoreResource.delete: the ORM sets store_id of the store's items to NULL
\* before it deletes the store, and items.store_id is NOT NULL
StoreDelete(S, store_id) ==
    LET found == ById(S.stores, store_id)
    IN  IF found = {} THEN Result(S, NotFound("store_delete"))
        ELSE IF ItemsOf(S, store_id) # {}
        THEN Result(S, ServerError("store_delete", "IntegrityError"))
        ELSE Result([S EXCEPT !.stores = @ \ found],
                    Resp("store_delete", 200, "Store deleted", TRUE, << >>))

\* StoreListResource.post
StorePost(S, data) ==
    IF ~Load(data, {"name"}, {})
    THEN Result(S, Unprocessable("store_post"))
    ELSE IF ByName(S.stores, data.name) # {}
    THEN Result(S, Resp("store_post", 400, "Store with that name already exists.",
                        FALSE, << >>))
    ELSE LET ins == InsertStore(S.stores, data.name)
             S2  == [S EXCEPT !.stores = ins.rows]
         IN  IF ins.ok
             THEN Result(S2, Resp("store_post", 201, "", TRUE,
                                  <<DumpStore(S2, First(ByName(S2.stores, data.name)))>>))
             ELSE Result(S, ServerError("store_post", "IntegrityError"))

\* ItemResource.get
ItemGet(S, item_id) ==
    LET found == ById(S.items, item_id)
    IN  IF found = {} THEN Result(S, NotFound("item_get"))
        ELSE Result(S, Resp("item_get", 200, "", FALSE, <<DumpItem(S, First(found))>>))

\* ItemResource.delete
ItemDelete(S, item_id) ==
    LET found == ById(S.items, item_id)
    IN  IF found = {} THEN Result(S, NotFound("item_delete"))
        ELSE Result([S EXCEPT !.items = @ \ found],
                    Resp("item_delete", 200, "Item deleted", TRUE, << >>))

\* ItemResource.put, had it also taken store_id from the body
ItemPut_TakesStore(S, data, item_id) ==
    IF ~Load(data, {"name", "price", "store_id"}, {})
    THEN Result(S, Unprocessable("item_put"))
    ELSE LET found == ById(S.items, item_id)
         IN  IF found = {} THEN Result(S, NotFound("item_put"))
             ELSE LET upd == UpdateItem(S.items, First(found), data.name, data.price)
                      S2  == [S EXCEPT !.items =
                                 {IF i.id = item_id
                                  THEN [i EXCEPT !.store_id = data.store_id]
                                  ELSE i : i \in upd.rows}]
                  IN  IF upd.ok
                      THEN Result(S2, Resp("item_put", 200, "", TRUE,
                                           <<DumpItem(S2, First(ById(S2.items, item_id)))>>))
                      ELSE Result(S, ServerError("item_put", "IntegrityError"))

\* ItemResource.put: name and price are taken from the body, store_id is not
ItemPut(S, data, item_id) ==
    IF ~Load(data, {"name", "price", "store_id"}, {})
    THEN Result(S, Unprocessable("item_put"))
    ELSE LET found == ById(S.items, item_id)
         IN  IF found = {} THEN Result(S, NotFound("item_put"))
             ELSE LET upd == UpdateItem(S.items, First(found), data.name, data.price)
                      S2  == [S EXCEPT !.items = upd.rows]
                  IN  IF upd.ok
                      THEN Result(S2, Resp("item_put", 200, "", TRUE,
                                           <<DumpItem(S2, First(ById(S2.items, item_id)))>>))
                      ELSE Result(S, ServerError("item_put", "IntegrityError"))

\* ItemListResource.post: the store is looked up, the name is not
ItemPost(S, data) ==
    IF ~Load(data, {"name", "price", "store_id"}, {})
    THEN Result(S, Unprocessable("item_post"))
    ELSE IF ById(S.stores, data.store_id) = {}
    THEN Result(S, Resp("item_post", 400, "Store not found.", FALSE, << >>))
    ELSE LET ins == InsertItem(S.items, data.name, data.price, data.store_id)
             S2  == [S EXCEPT !.items = ins.rows]
         IN  IF ins.ok
             THEN Result(S2, Resp("item_post", 201, "", TRUE,
                                  <<DumpItem(S2, First(ByName(S2.items, data.name)))>>))
             ELSE Result(S, ServerError("item_post", "IntegrityError"))

\* a request of the variant: what its view function committed, and its response
CommitStore(R) ==
    /\ \A r \in R.db.stores \cup R.db.items : r.id <= MaxId
    /\ stores' = R.db.stores
    /\ items' = R.db.items
    /\ resp' = R.resp
    /\ UNCHANGED <<tables, now, issued, creds, workers>>

StoreResource_get(store_id) == CommitStore(StoreGet(StoreDB, store_id))

StoreResource_delete(store_id) == CommitStore(StoreDelete(StoreDB, store_id))

StoreListResource_post(data) == CommitStore(StorePost(StoreDB, data))

ItemResource_get(item_id) == CommitStore(ItemGet(StoreDB, item_id))

ItemResource_delete(item_id) == CommitStore(ItemDelete(StoreDB, item_id))

ItemResource_put(data, item_id) == CommitStore(ItemPut(StoreDB, data, item_id))

ItemListResource_post(data) == CommitStore(ItemPost(StoreDB, data))

StorePayloads(N) == {[name |-> n] : n \in N} \cup {NoJson}

ItemPayloads(N, P, S) ==
    {[name |-> n, price |-> p, store_id |-> sid] : n \in N, p \in P, sid \in S}
    \cup {NoJson}

Init ==
    /\ users = {}
    /\ shops = {}
    /\ products = {}
    /\ tags = {}
    /\ product_tags = << >>
    /\ now = 0
    /\ issued = {}
    /\ creds = << >>
    /\ resp = Resp("none", 0, "", FALSE, << >>)
    /\ workers = [w \in Workers |-> Idle]
    /\ stores = {}
    /\ items = {}

(***************************************************************************)
(* Spec: the catalogue, one request at a time.  One user registers and     *)
(* logs in; two product titles and two tag names are in use, and clients   *)
(* send well-formed bodies with the token /login issued.  (SpecAuth has    *)
(* the clients the gate turns away, the bodies that fail validation and    *)
(* the reads of shops and tags.)                                           *)
(***************************************************************************)
Costs == {10}

TagIdLists == {<<2, 1>>, <<1, 1>>}

Tokens == issued

Users == UserPayloads({"u1"}, {"p"}) \ {NoJson}

ProductTitles == {"a", "b"}

ShopTitles == {"s1"}

TagNames == {"x", "y"}

Products == ProductPayloads(ProductTitles, Costs, {1}, TagIdLists) \ {NoJson}

Shops == ShopPayloads(ShopTitles) \ {NoJson}

Tags == TagPayloads(TagNames) \ {NoJson}

Next ==
    \/ \E data \in Users : RegisterResource_post(data, 1)
    \/ \E data \in Users : LoginResource_post(data)
    \/ \E tok \in Tokens, title \in ProductTitles : ProductResource_get(tok, title)
    \/ \E tok \in Tokens, title \in ProductTitles : ProductResource_delete(tok, title)
    \/ \E tok \in Tokens, data \in Products : ProductListResource_post(tok, data)
    \/ \E tok \in Tokens, title \in ShopTitles : ShopResource_delete(tok, title)
    \/ \E tok \in Tokens, data \in Shops : ShopListResource_post(tok, data)
    \/ \E tok \in Tokens, name \in TagNames : TagResource_delete(tok, name)
    \/ \E tok \in Tokens, data \in Tags : TagListResource_post(tok, data)
    \/ \E tok \in Tokens, title \in ProductTitles, tag_id \in Ids :
          ProductTagLinkResource_post(tok, title, tag_id)
    \/ \E tok \in Tokens, title \in ProductTitles, tag_id \in Ids :
          ProductTagLinkResource_delete(tok, title, tag_id)

Spec == Init /\ [][Next]_vars

(***************************************************************************)
(* SpecAuth: registration, login and the gate.  One username, two          *)
(* passwords, two salts, a clock that ticks, and clients that send no      *)
(* token, garbage, a token signed with a key of their own, or an issued    *)
(* token whose expiry they pushed back; one title of each kind in the      *)
(* catalogue.                                                              *)
(***************************************************************************)
ForgedTokens == {MakeToken("other-key", sub, MaxTime + TokenTTL + 1) : sub \in Ids}

Tampered(T) == {[tok EXCEPT !.exp = MaxTime + TokenTTL + 1] : tok \in T}

ClientTokens == issued \cup Tampered(issued) \cup ForgedTokens \cup {NoToken, Garbage}

AuthUsers == UserPayloads({"u1"}, {"p", "q"})

Salts == {1, 2}

AuthProducts == ProductPayloads({"a"}, Costs, {1}, {<<1>>})

AuthShops == ShopPayloads({"s1"})

AuthTags == TagPayloads({"x"})

AuthCalls == Calls({"a"}, {"s1"}, {"x"}, {1}, AuthProducts, AuthShops, AuthTags)

NextAuth ==
    \/ \E data \in AuthUsers, salt \in Salts : RegisterResource_post(data, salt)
    \/ \E data \in AuthUsers : LoginResource_post(data)
    \/ \E tok \in ClientTokens : ProductResource_get(tok, "a")
    \/ \E tok \in ClientTokens : ProductResource_delete(tok, "a")
    \/ \E tok \in ClientTokens, data \in AuthProducts : ProductListResource_post(tok, data)
    \/ \E tok \in ClientTokens : ShopResource_get(tok, "s1")
    \/ \E tok \in ClientTokens : ShopResource_delete(tok, "s1")
    \/ \E tok \in ClientTokens, data \in AuthShops : ShopListResource_post(tok, data)
    \/ \E tok \in ClientTokens : TagResource_get(tok, "x")
    \/ \E tok \in ClientTokens : TagResource_delete(tok, "x")
    \/ \E tok \in ClientTokens, data \in AuthTags : TagListResource_post(tok, data)
    \/ \E tok \in ClientTokens : ProductTagLinkResource_post(tok, "a", 1)
    \/ \E tok \in ClientTokens : ProductTagLinkResource_delete(tok, "a", 1)
    \/ Tick

SpecAuth == Init /\ [][NextAuth]_vars

(***************************************************************************)
(* SpecConc: two workers serve creates, deletes, links and unlinks on one   *)
(* key of each kind, interleaved query by query.                           *)
(***************************************************************************)
ConcUsers == UserPayloads({"u1"}, {"p"}) \ {NoJson}

ConcProducts == ProductPayloads({"a"}, Costs, {1}, {<<1>>}) \ {NoJson}

NextConc ==
    \/ \E w \in Workers, data \in ConcUsers : RegisterBegin(w, data, 1)
    \/ \E data \in ConcUsers : LoginResource_post(data)
    \/ \E w \in Workers, tok \in issued, data \in AuthShops \ {NoJson} : ShopBegin(w, tok, data)
    \/ \E w \in Workers, tok \in issued, data \in AuthTags \ {NoJson} : TagBegin(w, tok, data)
    \/ \E w \in Workers, tok \in issued, data \in ConcProducts : ProductBegin(w, tok, data)
    \/ \E w \in Workers : ProductTag(w)
    \/ \E w \in Workers : Insert(w)
    \/ \E w \in Workers, tok \in issued, op \in {"link", "unlink"} : LinkBegin(w, tok, op, "a", 1)
    \/ \E w \in Workers : LinkTag(w)
    \/ \E w \in Workers : LinkMember(w)
    \/ \E w \in Workers : LinkWrite(w)
    \/ \E w \in Workers, tok \in issued : DeleteBegin(w, tok, "product_delete", "a")
    \/ \E w \in Workers, tok \in issued : DeleteBegin(w, tok, "shop_delete", "s1")
    \/ \E w \in Workers, tok \in issued : DeleteBegin(w, tok, "tag_delete", "x")
    \/ \E w \in Workers : Delete(w)

SpecConc == Init /\ [][NextConc]_vars

(***************************************************************************)
(* SpecLogin: two usernames and two passwords, so that a token can name    *)
(* one user or the other; clients send the tokens of SpecAuth and also an  *)
(* issued token whose subject they replaced by another user's id.          *)
(***************************************************************************)
LoginUsers == UserPayloads({"u1", "u2"}, {"p", "q"})

Resubjected(T) == {[tok EXCEPT !.sub = sub] : tok \in T, sub \in Ids} \ T

LoginTokens == ClientTokens \cup Resubjected(issued)

LoginCalls == Calls({}, {"s1"}, {}, {}, {}, AuthShops, {})

NextLogin ==
    \/ \E data \in LoginUsers : RegisterResource_post(data, 1)
    \/ \E data \in LoginUsers : LoginResource_post(data)
    \/ \E tok \in LoginTokens : ShopResource_get(tok, "s1")
    \/ \E tok \in LoginTokens, data \in AuthShops : ShopListResource_post(tok, data)
    \/ Tick

SpecLogin == Init /\ [][NextLogin]_vars

(***************************************************************************)
(* SpecStore: the Store/Item variant, one request at a time; two store     *)
(* names, two item names, two prices.                                      *)
(***************************************************************************)
StoreNames == {"s1", "s2"}

ItemNames == {"i1", "i2"}

Prices == {10, 20}

NextStore ==
    \/ \E store_id \in Ids : StoreResource_get(store_id)
    \/ \E store_id \in Ids : StoreResource_delete(store_id)
    \/ \E data \in StorePayloads(StoreNames) : StoreListResource_post(data)
    \/ \E item_id \in Ids : ItemResource_get(item_id)
    \/ \E item_id \in Ids : ItemResource_delete(item_id)
    \/ \E data \in ItemPayloads(ItemNames, Prices, Ids), item_id \in Ids :
          ItemResource_put(data, item_id)
    \/ \E data \in ItemPayloads(ItemNames, Prices, Ids) : ItemListResource_post(data)

SpecStore == Init /\ [][NextStore]_vars

(***************************************************************************)
(* Properties of the catalogue (Spec).                                     *)
(***************************************************************************)

\* C1: for an existing product and an existing tag, link called twice in a
\* row leaves exactly one row of the pair and both calls answer 200; unlink
\* called twice in a row leaves no row of the pair and both calls answer 200.
C1_LinkUnlinkTwice ==
    \A title \in ProductTitles, tag_id \in Ids :
        (ByTitle(products, title) # {} /\ ById(tags, tag_id) # {}) =>
            LET pair == <<First(ByTitle(products, title)).id, tag_id>>
                L1 == LinkPost(DB, title, tag_id)
                L2 == LinkPost(L1.db, title, tag_id)
                U1 == LinkDelete(DB, title, tag_id)
                U2 == LinkDelete(U1.db, title, tag_id)
            IN  /\ L1.resp.status = 200 /\ L2.resp.status = 200
                /\ Count(L2.db.product_tags, pair) = 1
                /\ U1.resp.status = 200 /\ U2.resp.status = 200
                /\ Count(U2.db.product_tags, pair) = 0

\* a link answered 200 without committing: its pair was linked before
C1_Witness ==
    /\ resp.op = "link" /\ resp.status = 200 /\ ~resp.changed
    /\ Len(product_tags) >= 1

\* C7: creating a shop with a fresh title succeeds; creating a second shop
\* with the same title fails with "Shop already exists" and leaves the set of
\* shops as it was.
C7_SecondShopConflicts ==
    \A title \in ShopTitles :
        LET S1 == ShopPost(DB, [title |-> title])
            S2 == ShopPost(S1.db, [title |-> title])
        IN  /\ ByTitle(shops, title) = {} => S1.resp.status = 201
            /\ S2.resp.status = 400 /\ S2.resp.msg = "Shop already exists"
            /\ S2.db = S1.db
            /\ Cardinality(ByTitle(S2.db.shops, title)) = 1

C7_Witness ==
    /\ resp.op = "shop_post" /\ resp.status = 400 /\ resp.msg = "Shop already exists"
    /\ shops # {}

\* C9: link and unlink answer 404 whenever the product title or the tag id
\* resolves to nothing, and leave the association rows as they were.
C9_LinkNotFound ==
    \A title \in ProductTitles, tag_id \in Ids :
        (ByTitle(products, title) = {} \/ ById(tags, tag_id) = {}) =>
            /\ LinkPost(DB, title, tag_id).resp.status = 404
            /\ LinkPost(DB, title, tag_id).db = DB
            /\ LinkDelete(DB, title, tag_id).resp.status = 404
            /\ LinkDelete(DB, title, tag_id).db = DB

C9_Witness ==
    /\ resp.op \in {"link", "unlink"} /\ resp.status = 404
    /\ products # {} /\ product_tags # << >>

\* C10: a product created by POST /products names a shop that exists (a
\* create whose shop_id resolves to no shop fails and stores no row).
C10_CreateNeedsShop ==
    (resp.op = "product_post" /\ resp.status = 201) => resp.data[1].shop # << >>

\* the tag ids GET /product/{title} returns for the stored product p
ReadTagIds(D, p) == {t.id : t \in Range(ProductGet(D, p.title).resp.data[1].tags)}

CatalogueCalls == Calls(ProductTitles, ShopTitles, TagNames, Ids, Products, Shops, Tags)

\* what the request c does to the tags every stored product reads: a link
\* adds its tag to its product, an unlink removes it; with strict, nothing
\* else touches the reads and a new product reads no tag; without, a new
\* product also reads the existing tags of its tag_ids and a deleted tag
\* leaves every product
TagsReadAfter(D, c, strict) ==
    LET R == Handle(D, c)
    IN  \A p \in R.db.products :
            LET before == IF p \in D.products THEN ReadTagIds(D, p) ELSE {}
                after  == ReadTagIds(R.db, p)
            IN  CASE c.op = "link" /\ R.resp.status = 200 ->
                        after = IF p.title = c.title THEN before \cup {c.tag_id} ELSE before
                  [] c.op = "unlink" /\ R.resp.status = 200 ->
                        after = IF p.title = c.title THEN before \ {c.tag_id} ELSE before
                  [] ~strict /\ c.op = "product_post" /\ p \notin D.products ->
                        after = {t.id : t \in D.tags}
                                \cap (IF "tag_ids" \in DOMAIN c.data
                                      THEN Range(c.data.tag_ids) ELSE {})
                  [] ~strict /\ c.op = "tag_delete" ->
                        after = before \cap {t.id : t \in R.db.tags}
                  [] OTHER -> after = before

\* one link or unlink call on the pair (title, tag_id)
LinkCall(D, op, title, tag_id) ==
    IF op = "link" THEN LinkPost(D, title, tag_id).db ELSE LinkDelete(D, title, tag_id).db

\* two calls on distinct pairs of a stored product and a stored tag give the
\* same reads in either order
CallsCommute ==
    \A p1 \in products, p2 \in products, g1 \in tags, g2 \in tags,
       o1 \in {"link", "unlink"}, o2 \in {"link", "unlink"} :
        (p1.id < p2.id \/ (p1.id = p2.id /\ g1.id < g2.id)) =>
            LET D12 == LinkCall(LinkCall(DB, o1, p1.title, g1.id), o2, p2.title, g2.id)
                D21 == LinkCall(LinkCall(DB, o2, p2.title, g2.id), o1, p1.title, g1.id)
            IN  \A p \in products : ProductGet(D12, p.title).resp = ProductGet(D21, p.title).resp

\* C8 (as claimed): the tags a product reads are the set its successful link
\* and unlink calls established, and nothing else: a link adds its tag, an
\* unlink removes it, every other request leaves the reads alone and a new
\* product reads none; calls on distinct pairs commute.
C8_OnlyLinkCalls ==
    CallsCommute /\ \A c \in CatalogueCalls : TagsReadAfter(DB, c, TRUE)

\* C8 (amended): the tags a product reads are the existing tags of the
\* tag_ids it was created with, plus the tags of its successful links, less
\* those of its successful unlinks and the tags deleted since; link and unlink
\* calls on distinct pairs give the same reads in either order.
C8_TagsReadFollowCalls ==
    CallsCommute /\ \A c \in CatalogueCalls : TagsReadAfter(DB, c, FALSE)

\* a product read that returns tags while two pairs are linked
C8_Witness ==
    /\ resp.op = "product_get" /\ resp.status = 200
    /\ resp.data[1].tags # << >>
    /\ Len(product_tags) >= 2

\* the delete requests of the catalogue, by key
DeleteCalls ==
    {c \in CatalogueCalls : c.op \in {"product_delete", "shop_delete", "tag_delete"}}

\* whether the key of the delete request c names a stored row
Stored(D, c) ==
    CASE c.op = "product_delete" -> ByTitle(D.products, c.title) # {}
      [] c.op = "shop_delete"    -> ByTitle(D.shops, c.title) # {}
      [] c.op = "tag_delete"     -> ByName(D.tags, c.name) # {}

\* C13: deleting a shop, product or tag by key is idempotent: the delete of
\* an absent key answers 200 and changes nothing; the delete of a stored key
\* answers 200, and a second delete of the same key answers the same and
\* leaves the state the first delete left.
C13_DeleteIdempotent ==
    \A c \in DeleteCalls :
        LET R1 == Handle(DB, c)
            R2 == Handle(R1.db, c)
        IN  /\ R1.resp.status = 200
            /\ R2.resp.status = 200 /\ R2.resp.msg = R1.resp.msg
            /\ R2.db = R1.db
            /\ ~Stored(DB, c) => R1.db = DB

\* C15: every stored product belongs to a shop that exists.
C15_ProductHasShop ==
    \A p \in products : ById(shops, p.shop_id) # {}

\* the rows of product_tags of product pid, oldest first
RowsOf(D, pid) == SelectSeq(D.product_tags, LAMBDA row : row[1] = pid)

\* C18: the tags a product lists are in the order they were linked to it,
\* whatever their ids.
C18_TagsInInsertionOrder ==
    \A p \in products :
        LET listed == ProductGet(DB, p.title).resp.data[1].tags
            rows   == RowsOf(DB, p.id)
        IN  [i \in DOMAIN listed |-> listed[i].id] = [i \in DOMAIN rows |-> rows[i][2]]

\* C20: POST /products with tag_ids under a new title answers 201 and links
\* the new product to just the stored tags whose ids are in tag_ids, each
\* once; ids of no tag are skipped, a repeated id links once, and the rows
\* of the other products stay.
C20_CreateWithTagIds ==
    \A data \in Products :
        ("tag_ids" \in DOMAIN data /\ ByTitle(products, data.title) = {}) =>
            LET R    == ProductPost(DB, data)
                new  == First(ByTitle(R.db.products, data.title))
                want == {t.id : t \in tags} \cap Range(data.tag_ids)
            IN  /\ R.resp.status = 201
                /\ Range(RowsOf(R.db, new.id)) = {<<new.id, t>> : t \in want}
                /\ Len(RowsOf(R.db, new.id)) = Cardinality(want)
                /\ {t.id : t \in Range(R.resp.data[1].tags)} = want
                /\ Len(R.resp.data[1].tags) = Cardinality(want)
                /\ \A q \in products : RowsOf(R.db, q.id) = RowsOf(DB, q.id)

\* a create that listed one tag of the two stored: its tag_ids repeated an id
C20_Witness ==
    /\ resp.op = "product_post" /\ resp.status = 201
    /\ Len(resp.data[1].tags) = 1
    /\ Cardinality(tags) = 2

(***************************************************************************)
(* Properties of registration, login and the gate (SpecAuth).              *)
(***************************************************************************)
Passwords == {d.password : d \in AuthUsers \ {NoJson}}

LoginAs(D, u, p) == LoginPost(D, [username |-> u, password |-> p], now)

\* a login that succeeded: 200 with a token for the user that verifies now
LoggedIn(D, L, u) ==
    /\ L.resp.status = 200
    /\ Len(L.resp.data) = 1
    /\ L.resp.data[1].sub = First(ByUsername(D.users, u)).id
    /\ DecodeToken(L.resp.data[1], now) = "ok"

\* a login that was refused: 401 and no token
Refused(L) == L.resp.status = 401 /\ L.resp.data = << >>

\* C2: a protected request whose token is missing, malformed, expired or
\* wrongly signed is answered 401 by the gate, and the five tables are as
\* they were before the request.
C2_GateRejects ==
    /\ resp.op = "gate" => resp.status = 401
    /\ \A tok \in ClientTokens, c \in AuthCalls :
          DecodeToken(tok, now) # "ok" =>
              Gated(tok, now, DB, Handle(DB, c)).db = DB

\* C5: registering a valid payload under a username not yet registered
\* answers 201; from then on a login with that username and password answers
\* 200 with an access token, and a login with that username and any other
\* password answers 401 and carries no token.
C5_RegisterThenLogin ==
    /\ \A data \in AuthUsers \ {NoJson}, salt \in Salts :
          ByUsername(users, data.username) = {} =>
              LET R == RegisterPost(DB, data, salt)
              IN  /\ R.resp.status = 201
                  /\ LoggedIn(R.db, LoginAs(R.db, data.username, data.password),
                              data.username)
                  /\ \A p \in Passwords \ {data.password} :
                        Refused(LoginAs(R.db, data.username, p))
    /\ \A u \in DOMAIN creds, p \in Passwords :
          IF p = creds[u] THEN LoggedIn(DB, LoginAs(DB, u, p), u)
                          ELSE Refused(LoginAs(DB, u, p))
    /\ resp.op = "login" => (resp.status = 200 <=> resp.data # << >>)
    /\ \A tok \in issued : \E u \in users : u.id = tok.sub

C5_Witness ==
    /\ resp.op = "login" /\ resp.status = 401
    /\ DOMAIN creds # {}
    /\ issued # {}

\* C6: registering under a username that is taken answers 409 and leaves
\* the users as they were: the password the username was registered with
\* still logs in, and the password of the refused registration does not
\* (unless it is the same one).
C6_DuplicateRegister ==
    \A data \in AuthUsers \ {NoJson}, salt \in Salts :
        ByUsername(users, data.username) # {} =>
            LET R == RegisterPost(DB, data, salt)
                u == data.username
            IN  /\ R.resp.status = 409
                /\ R.db = DB
                /\ u \in DOMAIN creds
                /\ LoggedIn(R.db, LoginAs(R.db, u, creds[u]), u)
                /\ data.password # creds[u] => Refused(LoginAs(R.db, u, data.password))

C6_Witness ==
    /\ resp.op = "register" /\ resp.status = 409
    /\ Cardinality(users) = 1

\* C12: a protected request whose token has expired, or whose signature
\* was not made with the server's key, is answered by the gate and never
\* by the handler, whether or not the token's subject is a registered user.
C12_ExpiredOrForgedRejected ==
    /\ \A tok \in ClientTokens, c \in AuthCalls :
          (tok.kind = "jwt" /\ (tok.exp <= now \/ tok.sig # Sign(SecretKey, tok.sub, tok.exp)))
              => /\ DecodeToken(tok, now) \in {"expired", "badsig"}
                 /\ Gated(tok, now, DB, Handle(DB, c))
                        = Result(DB, GateResp(DecodeToken(tok, now)))
    /\ \E tok \in ForgedTokens : \A u \in users : u.id # tok.sub
    /\ resp.op = "gate" => ~resp.changed

C12_Witness ==
    /\ resp.op = "gate" /\ resp.msg = "Token has expired"
    /\ products # {} /\ product_tags # << >>

\* C16: register and login are served without a token; login changes none
\* of the tables, and register changes nothing but the users, to which it
\* adds at most one row.
C16_RegisterLoginFrame ==
    /\ \A data \in AuthUsers :
          /\ LoginPost(DB, data, now).db = DB
          /\ LoginPost(DB, data, now).resp.op = "login"
    /\ \A data \in AuthUsers, salt \in Salts :
          LET R == RegisterPost(DB, data, salt)
          IN  /\ R.resp.op = "register"
              /\ [R.db EXCEPT !.users = users] = DB
              /\ users \subseteq R.db.users
              /\ Cardinality(R.db.users \ users) <= 1
    /\ (resp.op \in {"register", "login"} /\ resp.status \in {200, 201}) => users # {}

\* the first token: a login that succeeded when no token had been issued
C16_Witness ==
    /\ resp.op = "login" /\ resp.status = 200
    /\ issued = {resp.data[1]}
    /\ shops = {} /\ products = {} /\ tags = {}

\* C17: a token that login issued passes the gate on every protected
\* request for as long as its expiry lies ahead, whatever requests were
\* served since it was issued.
C17_IssuedTokenPasses ==
    \A tok \in issued :
        now < tok.exp =>
            /\ DecodeToken(tok, now) = "ok"
            /\ \A c \in AuthCalls : Gated(tok, now, DB, Handle(DB, c)) = Handle(DB, c)

\* a protected request served after the clock ticked and a second token was issued
C17_Witness ==
    /\ resp.op \notin {"none", "gate", "register", "login"}
    /\ now >= 1
    /\ \E t1 \in issued, t2 \in issued : t1.exp < t2.exp /\ now < t1.exp

(***************************************************************************)
(* Properties of concurrent requests (SpecConc).                           *)
(***************************************************************************)
Quiescent == \A w \in Workers : workers[w].pc = "idle"

\* C3: however the look-ups, membership checks, writes and commits of
\* concurrent link and unlink requests on one (product, tag) pair
\* interleave, no state holds the pair more than once; when all requests
\* have finished the pair is there exactly once or not at all.
C3_PairAtMostOnce ==
    /\ \A row \in Range(product_tags) : Count(product_tags, row) = 1
    /\ Quiescent => \A p \in products, g \in tags :
                       Count(product_tags, <<p.id, g.id>>) \in {0, 1}

C3_Witness ==
    /\ resp.op = "link" /\ resp.status = 500
    /\ Count(product_tags, <<1, 1>>) = 1
    /\ Quiescent

\* C11: through every sequence and interleaving of creates, registrations
\* and deletes no two users share a username, no two shops or products a
\* title, no two tags a name, no two rows of a table an id, and no
\* (product_id, tag_id) pair is stored twice.
C11_KeysUnique ==
    /\ \A u1 \in users, u2 \in users :
          (u1.username = u2.username \/ u1.id = u2.id) => u1 = u2
    /\ \A s1 \in shops, s2 \in shops : (s1.title = s2.title \/ s1.id = s2.id) => s1 = s2
    /\ \A p1 \in products, p2 \in products :
          (p1.title = p2.title \/ p1.id = p2.id) => p1 = p2
    /\ \A t1 \in tags, t2 \in tags : (t1.name = t2.name \/ t1.id = t2.id) => t1 = t2
    /\ \A i \in DOMAIN product_tags, j \in DOMAIN product_tags :
          product_tags[i] = product_tags[j] => i = j

\* a registration that lost the race for its username
C11_Witness ==
    /\ resp.op = "register" /\ resp.status = 500
    /\ Cardinality(users) = 1

\* C19: every row of product_tags names a stored product and a stored tag;
\* after the delete of a product or tag no row names it.
C19_RowsReferToStored ==
    \A row \in Range(product_tags) :
        ById(products, row[1]) # {} /\ ById(tags, row[2]) # {}

\* C4: a create (shop, product, tag, user) whose INSERT the engine refuses
\* because a concurrent create of the same key committed first is answered
\* with the conflict response; no create is answered with a server error.
C4_RaceAnswersConflict ==
    resp.op \in {"register", "shop_post", "tag_post", "product_post"} =>
        resp.status \in {201, 400, 409}

(***************************************************************************)
(* Properties of the tokens (SpecLogin).                                   *)
(***************************************************************************)
\* C21: the gate lets a protected request through to its handler only if
\* the request carries a token that an earlier successful login returned;
\* a login returns a token only when the username is registered and the
\* password is the one it was registered with, and the token's subject is
\* then the id of that user; a failed login and a registration return no
\* token.  Every token issued so far names the user whose login issued it.
C21_TokensComeFromLogin ==
    /\ \A tok \in LoginTokens, c \in LoginCalls :
          tok \notin issued =>
              /\ DecodeToken(tok, now) # "ok"
              /\ Gated(tok, now, DB, Handle(DB, c)).resp.op = "gate"
              /\ Gated(tok, now, DB, Handle(DB, c)).db = DB
    /\ \A data \in LoginUsers :
          LET L == LoginPost(DB, data, now)
          IN  IF L.resp.status = 200
              THEN /\ data # NoJson
                   /\ data.username \in DOMAIN creds
                   /\ creds[data.username] = data.password
                   /\ \E u \in users :
                         /\ u.username = data.username
                         /\ L.resp.data = <<CreateAccessToken(u.id, now)>>
                         /\ \A v \in users : v.id = u.id => v = u
              ELSE L.resp.data = << >>
    /\ \A data \in LoginUsers : RegisterPost(DB, data, 1).resp.data = << >>
    /\ resp.op \in {"register", "gate"} => resp.data = << >>
    /\ resp.op = "login" =>
          IF resp.status = 200 THEN resp.data[1] \in issued ELSE resp.data = << >>
    /\ \A tok \in issued :
          /\ tok.sig = Sign(SecretKey, tok.sub, tok.exp)
          /\ tok.exp <= now + TokenTTL
          /\ \E u \in users : u.id = tok.sub /\ u.username \in DOMAIN creds

\* a protected request was let through after both users had logged in
C21_Witness ==
    /\ resp.op = "shop_post" /\ resp.status = 201
    /\ \E t1 \in issued, t2 \in issued : t1.sub # t2.sub
    /\ Cardinality(users) = 2

(***************************************************************************)
(* Properties of the Store/Item variant (SpecStore).                       *)
(***************************************************************************)
\* C14: the delete of a store or item id that names no row answers 404 and
\* leaves stores and items as they are; the delete of a stored id removes
\* that row and nothing else, and a second delete of the id answers 404.
C14_DeleteByIdNotFound ==
    \A id \in Ids :
        LET R1 == StoreDelete(StoreDB, id)
            I1 == ItemDelete(StoreDB, id)
        IN  /\ IF ById(stores, id) = {}
               THEN R1.resp.status = 404 /\ R1.db = StoreDB
               ELSE /\ R1.db = [StoreDB EXCEPT !.stores = @ \ ById(stores, id)]
                    /\ StoreDelete(R1.db, id).resp.status = 404
            /\ IF ById(items, id) = {}
               THEN I1.resp.status = 404 /\ I1.db = StoreDB
               ELSE /\ I1.db = [StoreDB EXCEPT !.items = @ \ ById(items, id)]
                    /\ ItemDelete(I1.db, id).resp.status = 404

\* C22: PUT /item/{item_id} on a stored item changes nothing but that
\* item's name and price: its id and store_id stay as they were even when
\* the body names another store, every other item and every store is
\* unchanged, and an answer other than 200 changes nothing at all.  PUT on
\* an id that names no item stores no item, and with a body that passes
\* the schema it answers 404.
C22_PutChangesNameAndPrice ==
    \A data \in ItemPayloads(ItemNames, Prices, Ids), item_id \in Ids :
        LET R     == ItemPut(StoreDB, data, item_id)
            found == ById(items, item_id)
        IN  /\ R.db.stores = stores
            /\ R.resp.status # 200 => R.db = StoreDB
            /\ IF found = {}
               THEN /\ R.db = StoreDB
                    /\ data # NoJson => R.resp.status = 404
               ELSE LET old == First(found)
                        new == [old EXCEPT !.name = data.name, !.price = data.price]
                    IN  R.resp.status = 200 =>
                            /\ R.db.items = (items \ {old}) \cup {new}
                            /\ new.id = item_id /\ new.store_id = old.store_id
                            /\ Cardinality(R.db.items) = Cardinality(items)

\* a PUT that renamed and repriced one of two items, each in a store of its own
C22_Witness ==
    /\ resp.op = "item_put" /\ resp.status = 200
    /\ Cardinality(stores) = 2
    /\ \E i \in items, j \in items :
          /\ i.store_id # j.store_id
          /\ i.id = resp.data[1].id
          /\ resp.data[1].store = <<First(ById(stores, i.store_id))>>

====
